---- MODULE Spec2Model ----
(***************************************************************************)
(* Model of the PAM module ssh_github_auth: one login attempt handled by   *)
(* pam_sm_authenticate (src/src/lib.rs), the GitHub client                 *)
(* (src/src/github.rs) and the account collaborator (src/src/user.rs).     *)
(*                                                                         *)
(* Strings whose content the code inspects (usernames, the operator's      *)
(* answer) are sequences of one-character strings.  Every remote request,  *)
(* host conversation and spawned command is an input of the step that      *)
(* makes it, drawn from a small set.                                       *)
(***************************************************************************)
EXTENDS Integers, Sequences, FiniteSets, TLC

VARIABLES
    pc,          \* position in pam_sm_authenticate / ensure_user_exists
    args,        \* the HashMap built by parse_args
    pamUser,     \* the name returned by pam get_user, as the host gave it
    username,    \* the local `username` (lib.rs:163-172)
    result,      \* what the call gives back to the host ("none" while running)
    trace,       \* observable calls so far: provider requests, prompts, commands
    log,         \* messages handed to logging::log_to_file
    fs,          \* account, credential store and sudoers entry of `username`
    githubUser,  \* the GithubUser value, once one exists
    login,       \* the login the provider reported for the access token
    ans,         \* the operator's reply to the key-import question
    keys         \* the key text held in `keys` (lib.rs:294)

vars == <<pc, args, pamUser, username, result, trace, log, fs, githubUser, login, ans, keys>>

(***************************************************************************)
(* Bounds and input sets                                                   *)
(***************************************************************************)
MaxArgc == 4

Tokens ==
    { [key |-> "org", eq |-> TRUE, val |-> "acme"],
      [key |-> "client_id", eq |-> TRUE, val |-> "Iv1"],
      [key |-> "team", eq |-> TRUE, val |-> "platform"],
      [key |-> "auto_create_user", eq |-> FALSE, val |-> ""],
      [key |-> "auto_create_user", eq |-> TRUE, val |-> "sudoer"],
      [key |-> "auto_create_user", eq |-> TRUE, val |-> "Sudoer"],
      [key |-> "allow_import_keys", eq |-> FALSE, val |-> ""] }

\* argv vectors: the two required arguments may be given or not, followed by
\* up to MaxArgc further arguments in any order, repetitions included.
Required ==
    { <<>>,
      << [key |-> "org", eq |-> TRUE, val |-> "acme"] >>,
      << [key |-> "client_id", eq |-> TRUE, val |-> "Iv1"] >>,
      << [key |-> "org", eq |-> TRUE, val |-> "acme"],
         [key |-> "client_id", eq |-> TRUE, val |-> "Iv1"] >> }

ArgVectors ==
    { r \o s : r \in Required,
               s \in UNION { [1..n -> Tokens] : n \in 0..MaxArgc } }

PamUsers == { <<"A", "b">>, <<"b">> }
Logins == { <<"a", "b">>, <<"A", "B">>, <<"b">> }
NoName == <<>>

Answers ==
    { <<>>, <<"y">>, <<" ", "Y", "\n">>, <<"n">>, <<"y", "e", "s">> }

KeyTexts == { "k1", "k2" }

PamCodes == { "SUCCESS", "SYSTEM_ERR", "CONV_ERR", "BUF_ERR" }

\* An HTTP exchange: the request could not be completed (sent = FALSE), or a
\* status came back with a body that is well-formed ("ok"), JSON without the
\* expected field ("nofield"), or unreadable ("bad").
Statuses == { 200, 204, 401, 403, 404, 500 }
Bodies == { "ok", "nofield", "bad" }
HttpResponses ==
    { [sent |-> FALSE, status |-> 0, body |-> "bad"] }
    \cup { r \in [sent : {TRUE}, status : Statuses, body : Bodies] :
             r.status >= 300 => r.body = "bad" }

\* What the host's conversation does with one message.
\* "null_text" is a response whose `resp` pointer is null (nothing was typed).
\* prompt_user reads it through CStr::from_ptr for the two input styles, which
\* is undefined: `crash` and `text` are what the build makes of that read.
ConvKinds == { "ok", "no_item", "null_conv", "no_fn", "conv_err", "null_resp", "null_text" }
HostConvs ==
    { h \in [kind : ConvKinds, text : Answers, crash : BOOLEAN] :
        /\ h.kind \notin { "ok", "null_text" } => h.text = <<>>
        /\ h.kind # "null_text" => ~h.crash
        /\ h.crash => h.text = <<>> }

CmdResults == { "ok", "fail", "nospawn" }

(***************************************************************************)
(* Strings                                                                 *)
(***************************************************************************)
AsciiLowerChar(c) ==
    CASE c = "A" -> "a"
      [] c = "B" -> "b"
      [] c = "Y" -> "y"
      [] OTHER -> c

to_ascii_lowercase(s) == [i \in 1..Len(s) |-> AsciiLowerChar(s[i])]

\* str::to_lowercase; on the characters used here it agrees with ASCII folding
to_lowercase(s) == [i \in 1..Len(s) |-> AsciiLowerChar(s[i])]

IsWhite(c) == c \in { " ", "\n", "\t" }

RECURSIVE TrimStart(_)
TrimStart(s) ==
    IF s # <<>> /\ IsWhite(Head(s)) THEN TrimStart(Tail(s)) ELSE s

RECURSIVE TrimEnd(_)
TrimEnd(s) ==
    IF s # <<>> /\ IsWhite(s[Len(s)]) THEN TrimEnd(SubSeq(s, 1, Len(s) - 1)) ELSE s

trim(s) == TrimEnd(TrimStart(s))

(***************************************************************************)
(* parse_args (lib.rs:13-40)                                               *)
(***************************************************************************)
EmptyMap == [k \in {} |-> ""]

Insert(m, k, v) == [x \in (DOMAIN m) \cup {k} |-> IF x = k THEN v ELSE m[x]]

RECURSIVE InsertKeyValues(_, _)
InsertKeyValues(m, argv) ==
    IF argv = <<>> THEN m
    ELSE IF Head(argv).eq
         THEN InsertKeyValues(Insert(m, Head(argv).key, Head(argv).val), Tail(argv))
         ELSE InsertKeyValues(m, Tail(argv))

RECURSIVE InsertFlags(_, _)
InsertFlags(m, argv) ==
    IF argv = <<>> THEN m
    ELSE IF ~Head(argv).eq
         THEN InsertFlags(Insert(m, Head(argv).key, ""), Tail(argv))
         ELSE InsertFlags(m, Tail(argv))

parse_args(argv) == InsertFlags(InsertKeyValues(EmptyMap, argv), argv)

contains_key(m, k) == k \in DOMAIN m

\* mutant: the client_id check is forgotten
RequiredArgsOrgOnly(m) ==
    IF ~contains_key(m, "org") THEN "no_org" ELSE "ok"

\* lib.rs:132-145: which required argument is found missing first
RequiredArgs(m) ==
    IF ~contains_key(m, "org") THEN "no_org"
    ELSE IF ~contains_key(m, "client_id") THEN "no_client_id"
    ELSE "ok"

auto_create_user(m) == contains_key(m, "auto_create_user")

\* mutant: the value is compared without regard to case
auto_create_user_sudoer_nocase(m) ==
    IF auto_create_user(m) THEN m["auto_create_user"] \in { "sudoer", "Sudoer" }
    ELSE FALSE

auto_create_user_sudoer(m) ==
    IF auto_create_user(m) THEN m["auto_create_user"] = "sudoer" ELSE FALSE

allow_import_keys(m) == contains_key(m, "allow_import_keys")

(***************************************************************************)
(* Identity provider client (github.rs)                                    *)
(***************************************************************************)
is_success(status) == status >= 200 /\ status <= 299

\* github.rs:174-201.  "panic" is an unwrap() on a success body that is not
\* JSON or lacks device_code / user_code.
get_auth_code(resp) ==
    IF ~resp.sent THEN "Other"
    ELSE IF is_success(resp.status)
         THEN (IF resp.body = "ok" THEN "Ok" ELSE "panic")
    ELSE IF resp.status = 401 THEN "Unauthorized"
    ELSE IF resp.status = 403 THEN "Forbidden"
    ELSE "Other"

\* github.rs:48-71 and 77-85: the token request of from_device_code
token_exchange(resp) ==
    IF ~resp.sent THEN "Other"
    ELSE IF is_success(resp.status)
         THEN (CASE resp.body = "ok" -> "Ok"
                 [] resp.body = "nofield" -> "Unauthorized"
                 [] OTHER -> "panic")
    ELSE IF resp.status = 401 THEN "Unauthorized"
    ELSE IF resp.status = 403 THEN "Forbidden"
    ELSE "Other"

\* mutant: the login is read but never compared
check_username_unchecked(name, resp, l) ==
    IF ~resp.sent THEN "Other"
    ELSE IF is_success(resp.status)
         THEN (IF resp.body # "ok" THEN "panic" ELSE "Ok")
    ELSE IF resp.status = 401 THEN "Unauthorized"
    ELSE IF resp.status = 403 THEN "Forbidden"
    ELSE "Other"

\* github.rs:203-236; `name` is the username argument, `l` the login in the body
check_username(name, resp, l) ==
    IF ~resp.sent THEN "Other"
    ELSE IF is_success(resp.status)
         THEN (IF resp.body # "ok" THEN "panic"
               ELSE IF to_ascii_lowercase(l) = name THEN "Ok"
               ELSE "InvalidUser")
    ELSE IF resp.status = 401 THEN "Unauthorized"
    ELSE IF resp.status = 403 THEN "Forbidden"
    ELSE "Other"

\* github.rs:88-123
from_pat(resp) ==
    IF ~resp.sent THEN "Other"
    ELSE IF resp.status = 200
         THEN (IF resp.body = "ok" THEN "Ok" ELSE "panic")
    ELSE IF resp.status = 404 THEN "NotFound"
    ELSE IF resp.status = 401 THEN "Unauthorized"
    ELSE IF resp.status = 403 THEN "Forbidden"
    ELSE "Other"

\* mutant: only 200 counts as membership
is_in_team_exact200(resp) ==
    IF ~resp.sent THEN "Err"
    ELSE IF resp.status = 200 THEN "true" ELSE "false"

\* github.rs:125-140
is_in_team(resp) ==
    IF ~resp.sent THEN "Err"
    ELSE IF is_success(resp.status) THEN "true"
    ELSE "false"

\* github.rs:142-169; "panic" is text().unwrap() on an unreadable body
get_keys(resp) ==
    IF ~resp.sent THEN "Other"
    ELSE IF is_success(resp.status)
         THEN (IF resp.body = "bad" THEN "panic" ELSE "Ok")
    ELSE IF resp.status = 404 THEN "NotFound"
    ELSE IF resp.status = 401 THEN "Unauthorized"
    ELSE IF resp.status = 403 THEN "Forbidden"
    ELSE "Other"

IsError(r) == r \in { "NotFound", "Unauthorized", "Forbidden", "InvalidUser", "Other" }

(***************************************************************************)
(* Host interaction: prompt_user (lib.rs:44-116)                           *)
(***************************************************************************)
Styles == { "PROMPT_ECHO_OFF", "PROMPT_ECHO_ON", "ERROR_MSG", "TEXT_INFO" }

prompt_user(style, h) ==
    CASE h.kind \in { "no_item", "null_conv" } ->
            [ok |-> FALSE, code |-> "CONV_ERR", text |-> <<>>]
      [] h.kind = "no_fn" ->
            [ok |-> FALSE, code |-> "CONV_ERR", text |-> <<>>]
      [] h.kind = "conv_err" ->
            [ok |-> FALSE, code |-> "BUF_ERR", text |-> <<>>]
      [] h.kind = "null_resp" ->
            [ok |-> FALSE, code |-> "CONV_ERR", text |-> <<>>]
      [] h.kind = "null_text" /\ h.crash
           /\ style \in { "PROMPT_ECHO_OFF", "PROMPT_ECHO_ON" } ->
            [ok |-> FALSE, code |-> "crash", text |-> <<>>]
      [] OTHER ->
            IF style \in { "PROMPT_ECHO_OFF", "PROMPT_ECHO_ON" }
            THEN [ok |-> TRUE, code |-> "SUCCESS", text |-> h.text]
            ELSE [ok |-> TRUE, code |-> "SUCCESS", text |-> <<>>]

(***************************************************************************)
(* Events                                                                  *)
(***************************************************************************)
Ev(op, arg, res) == [op |-> op, arg |-> arg, style |-> "", res |-> res]

PromptEv(msg, style, p) ==
    [op |-> "prompt", arg |-> msg, style |-> style,
     res |-> IF p.ok THEN "Ok" ELSE p.code]

Did(op, arg, res) ==
    \E i \in 1..Len(trace) :
        trace[i].op = op /\ trace[i].arg = arg /\ trace[i].res = res

Called(op) == \E i \in 1..Len(trace) : trace[i].op = op

Count(op, arg) ==
    Cardinality({ i \in 1..Len(trace) : trace[i].op = op /\ trace[i].arg = arg })

Last(s) == s[Len(s)]

NoUser == [exists |-> FALSE, state |-> "", role |-> "", org |-> "", pat |-> "",
           username |-> NoName]

States == { "pending", "active" }
Roles == { "member", "admin", "billing_manager" }

(***************************************************************************)
(* Initial state: the attempt has not started; the account database and    *)
(* the home directory of the claimed user are whatever earlier activity    *)
(* left behind.                                                            *)
(***************************************************************************)
InitialFs ==
    { f \in [user : BOOLEAN, sshDir : BOOLEAN, authKeys : BOOLEAN,
             sshMode : { "none", "other" }, keysMode : { "none", "other" },
             owner : { "none", "root" }, sudoers : BOOLEAN, keys : { <<>> }] :
        /\ f.authKeys => f.sshDir
        /\ f.sshMode = (IF f.sshDir THEN "other" ELSE "none")
        /\ f.keysMode = (IF f.authKeys THEN "other" ELSE "none")
        /\ f.owner = (IF f.sshDir THEN "root" ELSE "none") }

Init ==
    /\ pc = "start"
    /\ args = EmptyMap
    /\ pamUser = NoName
    /\ username = NoName
    /\ result = "none"
    /\ trace = <<>>
    /\ log = <<>>
    /\ fs \in InitialFs
    /\ githubUser = NoUser
    /\ login = NoName
    /\ ans = <<>>
    /\ keys = ""

\* `return code` from pam_sm_authenticate
Return(code) == pc' = "done" /\ result' = code

\* an unwrap() on Err/None inside the extern "C" function: the process aborts
\* and the host gets no result code
Abort == pc' = "done" /\ result' = "ABORT"

(***************************************************************************)
(* pam_sm_authenticate, lib.rs:129-159                                     *)
(***************************************************************************)
ParseArgs ==
    /\ pc = "start"
    /\ \E argv \in ArgVectors :
        LET m == parse_args(argv) IN
        /\ args' = m
        /\ CASE RequiredArgs(m) = "no_org" ->
                    /\ log' = Append(log, "Missing organization name")
                    /\ Return("SERVICE_ERR")
             [] RequiredArgs(m) = "no_client_id" ->
                    /\ log' = Append(log, "Missing client ID")
                    /\ Return("SERVICE_ERR")
             [] OTHER ->
                    /\ log' = log
                    /\ pc' = "get_user"
                    /\ result' = result
    /\ UNCHANGED <<pamUser, username, trace, fs, githubUser, login, ans, keys>>

(***************************************************************************)
(* lib.rs:161-174                                                          *)
(***************************************************************************)
\* the value returned when get_user does not succeed (lib.rs:168-171)
GetUserFailure(code) == code

GetUser ==
    /\ pc = "get_user"
    /\ \E code \in PamCodes, name \in PamUsers :
        IF code = "SUCCESS"
        THEN /\ pamUser' = name
             /\ username' = to_ascii_lowercase(name)
             /\ trace' = Append(trace, Ev("get_user", "", "SUCCESS"))
             /\ log' = Append(log, "Authentication request for username")
             /\ pc' = "get_auth_code"
             /\ result' = result
        ELSE /\ trace' = Append(trace, Ev("get_user", "", code))
             /\ log' = Append(log, "Failed to get username")
             /\ Return(GetUserFailure(code))
             /\ UNCHANGED <<pamUser, username>>
    /\ UNCHANGED <<args, fs, githubUser, login, ans, keys>>

(***************************************************************************)
(* lib.rs:177-183                                                          *)
(***************************************************************************)
OnAuthCode(r) == IF r = "Ok" THEN "continue" ELSE "SERVICE_ERR"

GetAuthCode ==
    /\ pc = "get_auth_code"
    /\ \E resp \in HttpResponses :
        LET r == get_auth_code(resp) IN
        /\ trace' = Append(trace, Ev("get_auth_code", "", r))
        /\ IF r = "panic"
           THEN Abort /\ log' = log
           ELSE IF OnAuthCode(r) = "continue"
           THEN /\ pc' = "prompt_code"
                /\ result' = result
                /\ log' = log
           ELSE /\ Return(OnAuthCode(r))
                /\ log' = Append(log, "Failed to get device code")
    /\ UNCHANGED <<args, pamUser, username, fs, githubUser, login, ans, keys>>

(***************************************************************************)
(* lib.rs:186-200: the collected input is dropped                          *)
(***************************************************************************)
OnCodePrompt(p) == IF p.ok THEN "continue" ELSE "SERVICE_ERR"

\* the code prompt, answered by the host as `h`
PromptCodeWith(h) ==
    LET p == prompt_user("PROMPT_ECHO_OFF", h) IN
    /\ trace' = Append(trace, PromptEv("code", "PROMPT_ECHO_OFF", p))
    /\ IF p.code = "crash"
       THEN Abort /\ log' = log
       ELSE IF OnCodePrompt(p) = "continue"
       THEN /\ pc' = "token"
            /\ result' = result
            /\ log' = log
       ELSE /\ Return(OnCodePrompt(p))
            /\ log' = Append(log, "Failed to prompt user")
    /\ UNCHANGED <<args, pamUser, username, fs, githubUser, login, ans, keys>>

PromptCode ==
    /\ pc = "prompt_code"
    /\ \E h \in HostConvs : PromptCodeWith(h)

(***************************************************************************)
(* lib.rs:207-231: what an Err from from_device_code leads to              *)
(***************************************************************************)
\* mutant: Forbidden treated like the user-unknown kinds
RedeemErrCodeForbiddenUnknown(err) ==
    CASE err = "NotFound" -> "USER_UNKNOWN"
      [] err = "InvalidUser" -> "USER_UNKNOWN"
      [] err = "Unauthorized" -> "USER_UNKNOWN"
      [] err = "Forbidden" -> "USER_UNKNOWN"
      [] OTHER -> "SERVICE_ERR"

RedeemErrCode(err) ==
    CASE err = "NotFound" -> "USER_UNKNOWN"
      [] err = "InvalidUser" -> "USER_UNKNOWN"
      [] err = "Unauthorized" -> "USER_UNKNOWN"
      [] OTHER -> "SERVICE_ERR"

\* the message shown for the error, "" when none is
RedeemErrMessage(err) ==
    CASE err = "NotFound" -> "User not found in organization"
      [] err = "Unauthorized" -> "Unauthorized access"
      [] OTHER -> ""

RedeemErrLog(err) ==
    CASE err = "NotFound" -> "User not found in organization"
      [] err = "InvalidUser" -> "Invalid user"
      [] err = "Unauthorized" -> "Unauthorized access"
      [] OTHER -> "Unexpected error"

\* from_device_code returned Err(err) after the request recorded as `ev`
RedeemFailed(ev, err, h) ==
    LET shown == IF RedeemErrMessage(err) = "" THEN <<>>
                 ELSE << PromptEv(RedeemErrMessage(err), "ERROR_MSG",
                                  prompt_user("ERROR_MSG", h)) >>
    IN /\ trace' = trace \o << ev, Ev("from_device_code", "", err) >> \o shown
       /\ log' = Append(log, RedeemErrLog(err))
       /\ Return(RedeemErrCode(err))

(***************************************************************************)
(* GithubUser::from_device_code, github.rs:42-86: token request            *)
(***************************************************************************)
TokenExchange ==
    /\ pc = "token"
    /\ \E resp \in HttpResponses, h \in HostConvs :
        LET r == token_exchange(resp) IN
        CASE r = "Ok" ->
                /\ trace' = Append(trace, Ev("token", "", r))
                /\ pc' = "check_username"
                /\ UNCHANGED <<result, log>>
          [] r = "panic" ->
                /\ trace' = Append(trace, Ev("token", "", r))
                /\ Abort
                /\ log' = log
          [] OTHER -> RedeemFailed(Ev("token", "", r), r, h)
    /\ UNCHANGED <<args, pamUser, username, fs, githubUser, login, ans, keys>>

(***************************************************************************)
(* check_username as called at github.rs:72-74                             *)
(***************************************************************************)
CheckUsername ==
    /\ pc = "check_username"
    /\ \E resp \in HttpResponses, l \in Logins, h \in HostConvs :
        LET r == check_username(username, resp, l) IN
        /\ login' = IF r \in { "Ok", "InvalidUser" } THEN l ELSE login
        /\ CASE r = "Ok" ->
                /\ trace' = Append(trace, Ev("check_username", "", r))
                /\ pc' = "from_pat"
                /\ UNCHANGED <<result, log>>
             [] r = "panic" ->
                /\ trace' = Append(trace, Ev("check_username", "", r))
                /\ Abort
                /\ log' = log
             [] OTHER -> RedeemFailed(Ev("check_username", "", r), r, h)
    /\ UNCHANGED <<args, pamUser, username, fs, githubUser, ans, keys>>

(***************************************************************************)
(* from_pat as called at github.rs:76, then lib.rs:234                     *)
(***************************************************************************)
\* mutant: a pending membership is turned away
AfterRedeemActiveOnly(m) ==
    IF githubUser'.state = "pending" THEN "done"
    ELSE IF contains_key(m, "team") THEN "team" ELSE "success_msg"

AfterRedeem(m) == IF contains_key(m, "team") THEN "team" ELSE "success_msg"

\* the membership lookup answered `resp`, its body carrying state `st` and
\* role `ro`
FromPatWith(resp, st, ro, h) ==
    LET r == from_pat(resp) IN
    /\ CASE r = "Ok" ->
                /\ githubUser' = [exists |-> TRUE, state |-> st, role |-> ro,
                                  org |-> args["org"], pat |-> "token",
                                  username |-> username]
                /\ trace' = trace \o << Ev("from_pat", "", r),
                                        Ev("from_device_code", "", "Ok") >>
                /\ pc' = AfterRedeem(args)
                /\ UNCHANGED <<result, log>>
          [] r = "panic" ->
                /\ trace' = Append(trace, Ev("from_pat", "", r))
                /\ Abort
                /\ UNCHANGED <<log, githubUser>>
          [] OTHER ->
                /\ RedeemFailed(Ev("from_pat", "", r), r, h)
                /\ UNCHANGED githubUser
    /\ UNCHANGED <<args, pamUser, username, fs, login, ans, keys>>

FromPat ==
    /\ pc = "from_pat"
    /\ \E resp \in HttpResponses, st \in States, ro \in Roles, h \in HostConvs :
        FromPatWith(resp, st, ro, h)

\* continue at `next`, or return SUCCESS when nothing is left to do (lib.rs:308)
Goto(next) ==
    IF next = "return_success"
    THEN Return("SUCCESS")
    ELSE pc' = next /\ result' = result

\* mutant: without key import the attempt goes back to the success message
AfterProvisionBackwards(m) == IF allow_import_keys(m) THEN "import_q" ELSE "success_msg"

\* lib.rs:275
AfterProvision(m) == IF allow_import_keys(m) THEN "import_q" ELSE "return_success"

\* lib.rs:259
AfterSuccessMsg(m) == IF auto_create_user(m) THEN "eu_id" ELSE AfterProvision(m)

(***************************************************************************)
(* lib.rs:234-247                                                          *)
(***************************************************************************)
\* mutant: a non-member is let through
OnTeamIgnoreFalse(r) ==
    CASE r = "Err" -> "SERVICE_ERR"
      [] OTHER -> "continue"

OnTeam(r) ==
    CASE r = "Err" -> "SERVICE_ERR"
      [] r = "false" -> "USER_UNKNOWN"
      [] OTHER -> "continue"

IsInTeam ==
    /\ pc = "team"
    /\ \E resp \in HttpResponses, h \in HostConvs :
        LET r == is_in_team(resp) IN
        CASE OnTeam(r) = "continue" ->
                /\ trace' = Append(trace, Ev("is_in_team", "", r))
                /\ pc' = "success_msg"
                /\ UNCHANGED <<result, log>>
          [] r = "Err" ->
                /\ trace' = Append(trace, Ev("is_in_team", "", r))
                /\ log' = Append(log, "Failed to check team membership")
                /\ Return(OnTeam(r))
          [] OTHER ->
                /\ trace' = trace \o
                      << Ev("is_in_team", "", r),
                         PromptEv("User is not in the specified team", "ERROR_MSG",
                                  prompt_user("ERROR_MSG", h)) >>
                /\ log' = Append(log, "User is not in the specified team")
                /\ Return(OnTeam(r))
    /\ UNCHANGED <<args, pamUser, username, fs, githubUser, login, ans, keys>>

(***************************************************************************)
(* lib.rs:249-256                                                          *)
(***************************************************************************)
\* mutant: the result of the success message is dropped
OnSuccessMsgIgnored(p) == "continue"

OnSuccessMsg(p) == IF p.ok THEN "continue" ELSE "SERVICE_ERR"

SuccessMsg ==
    /\ pc = "success_msg"
    /\ \E h \in HostConvs :
        LET p == prompt_user("TEXT_INFO", h) IN
        /\ trace' = Append(trace, PromptEv("Authentication successful", "TEXT_INFO", p))
        /\ IF OnSuccessMsg(p) = "continue"
           THEN /\ log' = Append(log, "Authentication successful for user")
                /\ Goto(AfterSuccessMsg(args))
           ELSE /\ log' = Append(log, "Failed to prompt user")
                /\ Return(OnSuccessMsg(p))
    /\ UNCHANGED <<args, pamUser, username, fs, githubUser, login, ans, keys>>

(***************************************************************************)
(* user::ensure_user_exists (user.rs:6-113), one step per spawned command  *)
(***************************************************************************)
AddSudo == auto_create_user_sudoer(args)

\* ensure_user_exists returns `r`
EuReturn(evs, r) ==
    /\ trace' = trace \o evs \o << Ev("ensure_user_exists", "", r) >>
    /\ pc' = "eu_ret"

\* a command that could not be spawned or exited non-zero: `?` / return Err
EuFail(cmd, r) == EuReturn(<< Ev("cmd", cmd, r) >>, "Err")

\* user.rs:8-18
EuId ==
    /\ pc = "eu_id"
    /\ \E r \in { "ok", "nospawn" } :
        LET user_exists == r = "ok" /\ fs.user
            ev == Ev("cmd", "id", IF user_exists THEN "ok"
                                  ELSE IF r = "ok" THEN "fail" ELSE r)
        IN IF user_exists
           THEN EuReturn(<< ev >>, "Ok(true)") /\ log' = log
           ELSE /\ trace' = Append(trace, ev)
                /\ log' = Append(log, "Creating user")
                /\ pc' = "eu_useradd"
    /\ UNCHANGED <<args, pamUser, username, result, fs, githubUser, login, ans, keys>>

\* user.rs:20-33; useradd refuses a name that already exists
EuUseradd ==
    /\ pc = "eu_useradd"
    /\ \E r \in CmdResults :
        /\ r = "ok" => ~fs.user
        /\ IF r = "ok"
           THEN /\ fs' = [fs EXCEPT !.user = TRUE]
                /\ trace' = Append(trace, Ev("cmd", "useradd", r))
                /\ pc' = "eu_mkdir"
           ELSE EuFail("useradd", r) /\ fs' = fs
    /\ UNCHANGED <<args, pamUser, username, result, log, githubUser, login, ans, keys>>

\* user.rs:36-50
EuMkdir ==
    /\ pc = "eu_mkdir"
    /\ IF fs.sshDir
       THEN pc' = "eu_touch" /\ UNCHANGED <<fs, trace>>
       ELSE \E r \in CmdResults :
            IF r = "ok"
            THEN /\ fs' = [fs EXCEPT !.sshDir = TRUE, !.sshMode = "other",
                                     !.owner = "root"]
                 /\ trace' = Append(trace, Ev("cmd", "mkdir", r))
                 /\ pc' = "eu_touch"
            ELSE EuFail("mkdir", r) /\ fs' = fs
    /\ UNCHANGED <<args, pamUser, username, result, log, githubUser, login, ans, keys>>

\* user.rs:52-64
EuTouch ==
    /\ pc = "eu_touch"
    /\ IF fs.authKeys
       THEN pc' = "eu_chmod_ssh" /\ UNCHANGED <<fs, trace>>
       ELSE \E r \in CmdResults :
            IF r = "ok"
            THEN /\ fs' = [fs EXCEPT !.authKeys = TRUE, !.keysMode = "other"]
                 /\ trace' = Append(trace, Ev("cmd", "touch", r))
                 /\ pc' = "eu_chmod_ssh"
            ELSE EuFail("touch", r) /\ fs' = fs
    /\ UNCHANGED <<args, pamUser, username, result, log, githubUser, login, ans, keys>>

\* user.rs:66-75
EuChmodSsh ==
    /\ pc = "eu_chmod_ssh"
    /\ \E r \in CmdResults :
        IF r = "ok"
        THEN /\ fs' = [fs EXCEPT !.sshMode = "700"]
             /\ trace' = Append(trace, Ev("cmd", "chmod 700", r))
             /\ pc' = "eu_chmod_keys"
        ELSE EuFail("chmod 700", r) /\ fs' = fs
    /\ UNCHANGED <<args, pamUser, username, result, log, githubUser, login, ans, keys>>

\* user.rs:77-85
EuChmodKeys ==
    /\ pc = "eu_chmod_keys"
    /\ \E r \in CmdResults :
        IF r = "ok"
        THEN /\ fs' = [fs EXCEPT !.keysMode = "600"]
             /\ trace' = Append(trace, Ev("cmd", "chmod 600", r))
             /\ pc' = "eu_chown"
        ELSE EuFail("chmod 600", r) /\ fs' = fs
    /\ UNCHANGED <<args, pamUser, username, result, log, githubUser, login, ans, keys>>

\* user.rs:103-112: what ensure_user_exists returns once add_user_to_sudoers
\* has returned `r`
OnSudoers(r) == "Ok(false)"

SudoersLog(r) ==
    IF r = "Err" THEN "Warning: Failed to add user to sudoers"
    ELSE "Added user to sudoers"

\* add_user_to_sudoers returned `r`
SudoersDone(evs, r) ==
    /\ EuReturn(evs \o << Ev("add_user_to_sudoers", "", r) >>, OnSudoers(r))
    /\ log' = Append(log, SudoersLog(r))

\* user.rs:87-104
EuChown ==
    /\ pc = "eu_chown"
    /\ \E r \in CmdResults :
        IF r = "ok"
        THEN /\ fs' = [fs EXCEPT !.owner = "user"]
             /\ IF AddSudo
                THEN /\ trace' = Append(trace, Ev("cmd", "chown", r))
                     /\ pc' = "eu_sudoers"
                ELSE EuReturn(<< Ev("cmd", "chown", r) >>, "Ok(false)")
        ELSE EuFail("chown", r) /\ fs' = fs
    /\ UNCHANGED <<args, pamUser, username, result, log, githubUser, login, ans, keys>>

\* add_user_to_sudoers, user.rs:115-140.  A failed `echo ... > f && chmod`
\* may or may not have left the file behind.
EuSudoers ==
    /\ pc = "eu_sudoers"
    /\ IF fs.sudoers
       THEN SudoersDone(<<>>, "Ok") /\ fs' = fs
       ELSE \E r \in CmdResults, left \in BOOLEAN :
            CASE r = "ok" ->
                    /\ fs' = [fs EXCEPT !.sudoers = TRUE]
                    /\ trace' = Append(trace, Ev("cmd", "write sudoers", r))
                    /\ pc' = "eu_visudo"
                    /\ log' = log
              [] r = "fail" ->
                    /\ fs' = [fs EXCEPT !.sudoers = left]
                    /\ SudoersDone(<< Ev("cmd", "write sudoers", r) >>, "Err")
              [] OTHER ->
                    /\ fs' = fs
                    /\ SudoersDone(<< Ev("cmd", "write sudoers", r) >>, "Err")
    /\ UNCHANGED <<args, pamUser, username, result, githubUser, login, ans, keys>>

\* add_user_to_sudoers, user.rs:142-159.  On a failed syntax check the file is
\* removed by `rm -f`, whose own status is ignored.
EuVisudo ==
    /\ pc = "eu_visudo"
    /\ \E r \in CmdResults, removed \in BOOLEAN :
        CASE r = "ok" ->
                /\ fs' = fs
                /\ SudoersDone(<< Ev("cmd", "visudo", r) >>, "Ok")
          [] r = "fail" ->
                /\ fs' = [fs EXCEPT !.sudoers = ~removed]
                /\ SudoersDone(<< Ev("cmd", "visudo", r) >>, "Err")
          [] OTHER ->
                /\ fs' = fs
                /\ SudoersDone(<< Ev("cmd", "visudo", r) >>, "Err")
    /\ UNCHANGED <<args, pamUser, username, result, githubUser, login, ans, keys>>

(***************************************************************************)
(* lib.rs:259-273                                                          *)
(***************************************************************************)
OnProvision(r) == IF r = "Err" THEN "SERVICE_ERR" ELSE "continue"

ProvisionLog(r) ==
    CASE r = "Ok(true)" -> "User already exists"
      [] r = "Ok(false)" -> "Created user"
      [] OTHER -> "Failed to create user"

ProvisionReturn ==
    /\ pc = "eu_ret"
    /\ LET r == Last(trace).res IN
        /\ log' = Append(log, ProvisionLog(r))
        /\ IF OnProvision(r) = "continue"
           THEN Goto(AfterProvision(args))
           ELSE Return(OnProvision(r))
    /\ UNCHANGED <<args, pamUser, username, trace, fs, githubUser, login, ans, keys>>

(***************************************************************************)
(* lib.rs:275-291                                                          *)
(***************************************************************************)
\* mutant: any answer starting with y is taken as yes
ImportAcceptedPrefix(a) ==
    /\ trim(a) # <<>>
    /\ to_lowercase(trim(a))[1] = "y"

ImportAccepted(a) == to_lowercase(trim(to_lowercase(trim(a)))) = <<"y">>

ImportPrompt ==
    /\ pc = "import_q"
    /\ \E h \in HostConvs :
        LET p == prompt_user("PROMPT_ECHO_ON", h) IN
        /\ trace' = Append(trace, PromptEv("import keys?", "PROMPT_ECHO_ON", p))
        /\ IF p.code = "crash"
           THEN Abort /\ UNCHANGED <<log, ans>>
           ELSE IF ~p.ok
           THEN /\ log' = Append(log, "Failed to prompt user")
                /\ Return("SERVICE_ERR")
                /\ ans' = ans
           ELSE /\ ans' = p.text
                /\ IF ImportAccepted(p.text)
                   THEN /\ log' = Append(log, "User accepted to import keys")
                        /\ pc' = "get_keys"
                        /\ result' = result
                   ELSE /\ log' = Append(log, "User declined to import keys")
                        /\ Return("SUCCESS")
    /\ UNCHANGED <<args, pamUser, username, fs, githubUser, login, keys>>

(***************************************************************************)
(* lib.rs:292-305: the keys are fetched (the text is dropped by `Ok(_)`),   *)
(* and on Ok fetched again                                                 *)
(***************************************************************************)
OnKeys(r) == IF r = "Ok" THEN "continue" ELSE "SERVICE_ERR"

GetKeys ==
    /\ pc = "get_keys"
    /\ \E resp \in HttpResponses :
        LET r == get_keys(resp) IN
        /\ trace' = Append(trace, Ev("get_keys", "", r))
        /\ CASE r = "panic" -> Abort /\ log' = log
             [] OnKeys(r) = "continue" ->
                    /\ pc' = "get_keys_again"
                    /\ UNCHANGED <<result, log>>
             [] OTHER ->
                    /\ log' = Append(log, "Failed to import keys")
                    /\ Return(OnKeys(r))
    /\ UNCHANGED <<args, pamUser, username, fs, githubUser, login, ans, keys>>

\* lib.rs:294: github_user.get_keys().unwrap()
GetKeysAgain ==
    /\ pc = "get_keys_again"
    /\ \E resp \in HttpResponses, text \in KeyTexts :
        LET r == get_keys(resp) IN
        /\ trace' = Append(trace, Ev("get_keys", "", r))
        /\ IF r = "Ok"
           THEN /\ keys' = text
                /\ pc' = "add_key"
                /\ result' = result
           ELSE /\ Abort
                /\ keys' = keys
    /\ UNCHANGED <<args, pamUser, username, log, fs, githubUser, login, ans>>

(***************************************************************************)
(* user::add_authorized_key (user.rs:161-177) as called at lib.rs:295-299  *)
(***************************************************************************)
OnAddKey(r) == IF r = "ok" THEN "SUCCESS" ELSE "SERVICE_ERR"

AddAuthorizedKey ==
    /\ pc = "add_key"
    /\ \E r \in CmdResults :
        /\ r = "ok" => fs.sshDir
        /\ trace' = Append(trace, Ev("add_authorized_key", keys, r))
        /\ IF r = "ok"
           THEN /\ fs' = [fs EXCEPT !.keys = Append(fs.keys, keys),
                                    !.authKeys = TRUE,
                                    !.keysMode = IF fs.authKeys THEN fs.keysMode
                                                 ELSE "other"]
                /\ log' = Append(log, "Imported keys for user")
           ELSE /\ fs' = fs
                /\ log' = Append(log, "Failed to import keys")
        /\ Return(OnAddKey(r))
    /\ UNCHANGED <<args, pamUser, username, githubUser, login, ans, keys>>

Next ==
    \/ ParseArgs
    \/ GetUser
    \/ GetAuthCode
    \/ PromptCode
    \/ TokenExchange
    \/ CheckUsername
    \/ FromPat
    \/ IsInTeam
    \/ SuccessMsg
    \/ EuId
    \/ EuUseradd
    \/ EuMkdir
    \/ EuTouch
    \/ EuChmodSsh
    \/ EuChmodKeys
    \/ EuChown
    \/ EuSudoers
    \/ EuVisudo
    \/ ProvisionReturn
    \/ ImportPrompt
    \/ GetKeys
    \/ GetKeysAgain
    \/ AddAuthorizedKey

Spec == Init /\ [][Next]_vars

TypeOK ==
    /\ result \in { "none", "SUCCESS", "USER_UNKNOWN", "SERVICE_ERR", "ABORT" } \cup PamCodes
    /\ (pc = "done") = (result # "none")

(***************************************************************************)
(* Vocabulary of the properties                                            *)
(***************************************************************************)
Done == pc = "done"

\* an answer that, stripped of surrounding white space and case, is "y"
IsAffirmative(a) ==
    \E i \in 1..Len(a) :
        /\ a[i] \in { "y", "Y" }
        /\ \A j \in 1..Len(a) : j # i => a[j] \in { " ", "\n", "\t" }

UpperChar(c) ==
    CASE c = "a" -> "A"
      [] c = "b" -> "B"
      [] c = "y" -> "Y"
      [] OTHER -> c

SameIgnoringCase(s, t) ==
    /\ Len(s) = Len(t)
    /\ \A i \in 1..Len(s) : UpperChar(s[i]) = UpperChar(t[i])

Provisioned == Called("ensure_user_exists") \/ Called("cmd")

KeysTouched == Called("get_keys") \/ Called("add_authorized_key")

KeyAppended == \E k \in KeyTexts : Did("add_authorized_key", k, "ok")

MessageIssued(msg, style) ==
    \E i \in 1..Len(trace) :
        trace[i].op = "prompt" /\ trace[i].arg = msg /\ trace[i].style = style

(***************************************************************************)
(* C1: there is no implicit success path.  Whenever the call returns       *)
(* SUCCESS, the device code was obtained, the code prompt returned Ok,     *)
(* from_device_code returned Ok (token, login check and membership lookup  *)
(* all succeeded), is_in_team returned true if a team was given, the       *)
(* success message was delivered, ensure_user_exists returned Ok if        *)
(* auto_create_user was given, and if allow_import_keys was given either   *)
(* the answer was not "y" or the keys were fetched and appended.           *)
(***************************************************************************)
C1_NoImplicitSuccess ==
    result = "SUCCESS" =>
        /\ Did("get_auth_code", "", "Ok")
        /\ Did("prompt", "code", "Ok")
        /\ Did("token", "", "Ok")
        /\ Did("check_username", "", "Ok")
        /\ Did("from_pat", "", "Ok")
        /\ Did("from_device_code", "", "Ok")
        /\ githubUser.exists
        /\ contains_key(args, "team") => Did("is_in_team", "", "true")
        /\ Did("prompt", "Authentication successful", "Ok")
        /\ contains_key(args, "auto_create_user") =>
              \/ Did("ensure_user_exists", "", "Ok(true)")
              \/ Did("ensure_user_exists", "", "Ok(false)")
        /\ contains_key(args, "allow_import_keys") =>
              /\ Did("prompt", "import keys?", "Ok")
              /\ \/ ~IsAffirmative(ans)
                 \/ Did("get_keys", "", "Ok") /\ KeyAppended

C1_Witness ==
    /\ result = "SUCCESS"
    /\ contains_key(args, "team")
    /\ contains_key(args, "auto_create_user")
    /\ contains_key(args, "allow_import_keys")
    /\ Did("ensure_user_exists", "", "Ok(false)")
    /\ IsAffirmative(ans)
    /\ KeyAppended

(***************************************************************************)
(* C2: every attempt ends by returning success, user-unknown or            *)
(* service-error; no other result code and no abnormal termination.        *)
(***************************************************************************)
C2_OnlyThreeOutcomes ==
    Done => result \in { "SUCCESS", "USER_UNKNOWN", "SERVICE_ERR" }

(***************************************************************************)
(* C3: if the argument map lacks org or client_id, the attempt ends with   *)
(* service-error and nothing was requested from the provider, nothing was  *)
(* shown to the operator and no command was run.                           *)
(***************************************************************************)
C3_MissingRequiredArgument ==
    (pc # "start" /\ ("org" \notin DOMAIN args \/ "client_id" \notin DOMAIN args)) =>
        /\ Done
        /\ result = "SERVICE_ERR"
        /\ trace = <<>>
        /\ ~githubUser.exists
        /\ fs.keys = <<>>

C3_Witness ==
    /\ Done
    /\ "org" \in DOMAIN args
    /\ "client_id" \notin DOMAIN args
    /\ "auto_create_user" \in DOMAIN args
    /\ result = "SERVICE_ERR"

(***************************************************************************)
(* C4: no partial state is left behind by an attempt that does not end in  *)
(* success: it has created no account, written no sudoers entry and        *)
(* appended no key.                                                        *)
(***************************************************************************)
C4_NoPartialState ==
    (Done /\ result # "SUCCESS") =>
        /\ ~Did("cmd", "useradd", "ok")
        /\ ~Did("cmd", "write sudoers", "ok")
        /\ ~KeyAppended

(***************************************************************************)
(* C5: when the login the provider reports for the access token differs    *)
(* from the claimed username, compared without regard to case, the attempt *)
(* ends with user-unknown, and no membership lookup, provisioning or key   *)
(* import is performed.                                                    *)
(***************************************************************************)
C5_LoginMismatchIsUserUnknown ==
    (login # NoName /\ ~SameIgnoringCase(login, pamUser)) =>
        /\ Done
        /\ result = "USER_UNKNOWN"
        /\ ~Called("from_pat")
        /\ ~githubUser.exists
        /\ ~Called("is_in_team")
        /\ ~Provisioned
        /\ ~KeysTouched

C5_Witness ==
    /\ pamUser = <<"A", "b">>
    /\ login = <<"b">>
    /\ result = "USER_UNKNOWN"
    /\ Did("check_username", "", "InvalidUser")

(***************************************************************************)
(* C6: the error returned by from_device_code decides the outcome:         *)
(* NotFound and InvalidUser give user-unknown; Unauthorized gives          *)
(* user-unknown with the error message "Unauthorized access" sent to the   *)
(* operator; Forbidden and Other give service-error.  Nothing follows: no  *)
(* team lookup, success message, provisioning or key import.               *)
(***************************************************************************)
C6_RedeemErrorDecidesOutcome ==
    \A e \in { "NotFound", "InvalidUser", "Unauthorized", "Forbidden", "Other" } :
        Did("from_device_code", "", e) =>
            /\ Done
            /\ e \in { "NotFound", "InvalidUser", "Unauthorized" } => result = "USER_UNKNOWN"
            /\ e \in { "Forbidden", "Other" } => result = "SERVICE_ERR"
            /\ e = "Unauthorized" => MessageIssued("Unauthorized access", "ERROR_MSG")
            /\ ~Called("is_in_team")
            /\ ~MessageIssued("Authentication successful", "TEXT_INFO")
            /\ ~Provisioned
            /\ ~KeysTouched

C6_Witness ==
    /\ Did("from_device_code", "", "Forbidden")
    /\ Did("from_pat", "", "Forbidden")
    /\ result = "SERVICE_ERR"

(***************************************************************************)
(* C7: with a team argument and a successful redemption, is_in_team        *)
(* returning false gives user-unknown (the error message is sent first)    *)
(* although the membership lookup succeeded, and a propagated failure      *)
(* gives service-error; neither is followed by the success message,        *)
(* provisioning or key import.  Without a team argument is_in_team is      *)
(* never called.                                                           *)
(***************************************************************************)
C7_TeamDecision ==
    /\ Called("is_in_team") =>
            /\ contains_key(args, "team")
            /\ Did("from_device_code", "", "Ok")
    /\ Did("is_in_team", "", "false") =>
            /\ Done
            /\ result = "USER_UNKNOWN"
            /\ MessageIssued("User is not in the specified team", "ERROR_MSG")
    /\ Did("is_in_team", "", "Err") =>
            /\ Done
            /\ result = "SERVICE_ERR"
    /\ (Did("is_in_team", "", "false") \/ Did("is_in_team", "", "Err")) =>
            /\ ~MessageIssued("Authentication successful", "TEXT_INFO")
            /\ ~Provisioned
            /\ ~KeysTouched
    /\ (contains_key(args, "team") /\ Did("from_device_code", "", "Ok")
            /\ pc # "team") => Called("is_in_team")

C7_Witness ==
    /\ Did("from_pat", "", "Ok")
    /\ Did("is_in_team", "", "false")
    /\ result = "USER_UNKNOWN"
    /\ contains_key(args, "auto_create_user")

(***************************************************************************)
(* C8: success is never reported while a requested post-authorization      *)
(* action is incomplete.  With auto_create_user=sudoer and the account     *)
(* created by this attempt, SUCCESS implies that the account exists and    *)
(* has its sudoers entry.                                                  *)
(***************************************************************************)
C8_SuccessImpliesSudoers ==
    (result = "SUCCESS" /\ contains_key(args, "auto_create_user")
        /\ args["auto_create_user"] = "sudoer" /\ Did("cmd", "useradd", "ok")) =>
        /\ fs.user
        /\ fs.sudoers

(***************************************************************************)
(* C9: once the operator has answered "y", a failure of any key fetch or   *)
(* of add_authorized_key ends the attempt with service-error, and SUCCESS  *)
(* is returned only with the fetched key text appended.                    *)
(***************************************************************************)
C9_KeyImportFailureIsServiceError ==
    (Done /\ Did("prompt", "import keys?", "Ok") /\ IsAffirmative(ans)) =>
        /\ (\/ \E e \in { "NotFound", "Unauthorized", "Forbidden", "Other" } :
                  Did("get_keys", "", e)
            \/ \E k \in KeyTexts, r \in { "fail", "nospawn" } :
                  Did("add_authorized_key", k, r))
           => result = "SERVICE_ERR"
        /\ result = "SUCCESS" =>
              /\ keys \in KeyTexts
              /\ fs.keys = << keys >>

(***************************************************************************)
(* C10: optional side effects happen only when opted into.                 *)
(* ensure_user_exists runs only with auto_create_user present; keys are    *)
(* fetched or appended only with allow_import_keys present and an answer   *)
(* that is "y" once trimmed and case-folded; any other answer returns      *)
(* SUCCESS without a key fetch or append; with neither flag and no team an *)
(* authorized attempt returns SUCCESS with no provisioning.                *)
(***************************************************************************)
C10_OptionalEffectsOnlyWhenOptedIn ==
    /\ Provisioned => contains_key(args, "auto_create_user")
    /\ KeysTouched =>
            /\ contains_key(args, "allow_import_keys")
            /\ Did("prompt", "import keys?", "Ok")
            /\ IsAffirmative(ans)
    /\ (Did("prompt", "import keys?", "Ok") /\ ~IsAffirmative(ans)) =>
            /\ Done
            /\ result = "SUCCESS"
            /\ fs.keys = <<>>
    /\ (Did("prompt", "Authentication successful", "Ok")
            /\ ~contains_key(args, "team")
            /\ ~contains_key(args, "auto_create_user")
            /\ ~contains_key(args, "allow_import_keys")) =>
            /\ Done
            /\ result = "SUCCESS"
            /\ ~Provisioned
            /\ ~KeysTouched

C10_Witness ==
    /\ result = "SUCCESS"
    /\ contains_key(args, "allow_import_keys")
    /\ ~contains_key(args, "auto_create_user")
    /\ ans = <<"y", "e", "s">>
    /\ ~KeysTouched
    /\ ~Provisioned

(***************************************************************************)
(* C11: the security-sensitive rejection causes cannot be told apart by    *)
(* the operator or the host.  From one and the same point of an attempt,   *)
(* a redemption that fails with NotFound, with Unauthorized or with        *)
(* InvalidUser returns the same result code and leaves the same sequence   *)
(* of messages sent to the operator; only the log differs.                 *)
(***************************************************************************)
SensitiveKinds == { "NotFound", "Unauthorized", "InvalidUser" }

\* the messages sent through prompt_user, in order, without their results
Shown(tr) ==
    LET p == SelectSeq(tr, LAMBDA e : e.op = "prompt")
    IN [i \in 1..Len(p) |-> [msg |-> p[i].arg, style |-> p[i].style]]

ErrorTexts ==
    { "User not found in organization", "Unauthorized access",
      "User is not in the specified team" }

\* what the operator may have been sent one step from now
ShownNext ==
    { Shown(trace) } \cup
    { Append(Shown(trace), [msg |-> t, style |-> "ERROR_MSG"]) : t \in ErrorTexts }

\* the next step is a redemption failing with `e`, returning `c`, having sent `m`
RejectedWith(e, c, m) ==
    /\ Next
    /\ Last(trace').op = "from_device_code" \/ Last(trace').op = "prompt"
    /\ \E i \in 1..Len(trace') :
          trace'[i].op = "from_device_code" /\ trace'[i].res = e
    /\ result' = c
    /\ Shown(trace') = m

\* what the host and the operator can observe of a rejection of kind `e`
Observable(e) ==
    { o \in { "SUCCESS", "USER_UNKNOWN", "SERVICE_ERR" } \X ShownNext :
        ENABLED RejectedWith(e, o[1], o[2]) }

C11_RejectionCausesIndistinguishable ==
    pc \in { "token", "check_username", "from_pat" } =>
        \A e1, e2 \in SensitiveKinds :
            (Observable(e1) # {} /\ Observable(e2) # {}) =>
                Observable(e1) = Observable(e2)

(***************************************************************************)
(* The provider client called directly (github.rs is a public module):     *)
(* one constructor call, then at most one method call on the value it      *)
(* returned.  `trace` holds the record of the most recent call: its        *)
(* arguments, the response that decided its result, and the result.        *)
(***************************************************************************)
\* names a caller may pass as `username`, lower-cased or not
ClaimedNames == PamUsers \cup { to_ascii_lowercase(u) : u \in PamUsers }

\* GithubUser::from_device_code (github.rs:42-86) on the responses r1 (token),
\* r2 (identity, reporting login l) and r3 (membership)
from_device_code(name, r1, r2, l, r3) ==
    LET t == token_exchange(r1)
        c == check_username(name, r2, l)
    IN IF t # "Ok" THEN t
       ELSE IF c # "Ok" THEN c
       ELSE from_pat(r3)

\* the request whose response decided the result of from_device_code
DecidingRequest(name, r1, r2, l, r3) ==
    IF token_exchange(r1) # "Ok" THEN [req |-> "token", resp |-> r1]
    ELSE IF check_username(name, r2, l) # "Ok" THEN [req |-> "check_username", resp |-> r2]
    ELSE [req |-> "from_pat", resp |-> r3]

\* the login the identity lookup reported, when it reported one
ReportedLogin(r1, r2, l) ==
    IF token_exchange(r1) = "Ok" /\ r2.sent /\ is_success(r2.status) /\ r2.body = "ok"
    THEN l ELSE NoName

Call(op, name, l, req, resp, res) ==
    [op |-> op, name |-> name, login |-> l, req |-> req, sent |-> resp.sent,
     status |-> resp.status, body |-> resp.body, res |-> res]

\* the GithubUser value a constructor returns (github.rs:106-110)
NewUser(name, st, ro) ==
    [exists |-> TRUE, state |-> st, role |-> ro, org |-> args["org"],
     pat |-> "token", username |-> name]

InitClient ==
    /\ pc = "client"
    /\ args = [org |-> "acme", client_id |-> "Iv1"]
    /\ pamUser = NoName
    /\ username = NoName
    /\ result = "none"
    /\ trace = <<>>
    /\ log = <<>>
    /\ fs = [user |-> FALSE, sshDir |-> FALSE, authKeys |-> FALSE,
             sshMode |-> "none", keysMode |-> "none", owner |-> "none",
             sudoers |-> FALSE, keys |-> <<>>]
    /\ githubUser = NoUser
    /\ login = NoName
    /\ ans = <<>>
    /\ keys = ""

\* GithubUser::from_device_code(device_code, client_id, name, org)
ClientFromDeviceCode ==
    /\ pc = "client"
    /\ \E name \in ClaimedNames, r1 \in HttpResponses, r2 \in HttpResponses,
          r3 \in HttpResponses, l \in Logins, st \in States, ro \in Roles :
        LET res == from_device_code(name, r1, r2, l, r3)
            d == DecidingRequest(name, r1, r2, l, r3)
        IN /\ trace' = << Call("from_device_code", name, ReportedLogin(r1, r2, l),
                               d.req, d.resp, res) >>
           /\ username' = name
           /\ login' = IF token_exchange(r1) = "Ok" THEN l ELSE NoName
           /\ githubUser' = IF res = "Ok" THEN NewUser(name, st, ro) ELSE NoUser
           /\ pc' = IF res = "Ok" THEN "have_user" ELSE "returned"
    /\ UNCHANGED <<args, pamUser, result, log, fs, ans, keys>>

\* GithubUser::from_pat(pat, name, org), `l` being the login the token belongs to
ClientFromPat ==
    /\ pc = "client"
    /\ \E name \in ClaimedNames, r3 \in HttpResponses, l \in Logins,
          st \in States, ro \in Roles :
        LET res == from_pat(r3)
        IN /\ trace' = << Call("from_pat", name, NoName, "from_pat", r3, res) >>
           /\ username' = name
           /\ login' = l
           /\ githubUser' = IF res = "Ok" THEN NewUser(name, st, ro) ELSE NoUser
           /\ pc' = IF res = "Ok" THEN "have_user" ELSE "returned"
    /\ UNCHANGED <<args, pamUser, result, log, fs, ans, keys>>

\* github_user.is_in_team(team)
ClientIsInTeam ==
    /\ pc = "have_user"
    /\ \E resp \in HttpResponses :
        trace' = << Call("is_in_team", username, NoName, "is_in_team", resp,
                         is_in_team(resp)) >>
    /\ pc' = "returned"
    /\ UNCHANGED <<args, pamUser, username, result, log, fs, githubUser, login, ans, keys>>

\* github_user.get_keys()
ClientGetKeys ==
    /\ pc = "have_user"
    /\ \E resp \in HttpResponses :
        trace' = << Call("get_keys", username, NoName, "get_keys", resp,
                         get_keys(resp)) >>
    /\ pc' = "returned"
    /\ UNCHANGED <<args, pamUser, username, result, log, fs, githubUser, login, ans, keys>>

NextClient ==
    \/ ClientFromDeviceCode
    \/ ClientFromPat
    \/ ClientIsInTeam
    \/ ClientGetKeys

SpecClient == InitClient /\ [][NextClient]_vars

\* the record of the most recent client call
LastCall == trace[1]

(***************************************************************************)
(* C12: a GithubUser value exists, whichever public constructor made it,   *)
(* only if the login of the remote account equals the claimed username     *)
(* without regard to case and the membership lookup returned HTTP          *)
(* success; and an existing value has org, pat and username populated.     *)
(***************************************************************************)
C12_IdentityInvariant ==
    githubUser.exists =>
        /\ SameIgnoringCase(login, githubUser.username)
        /\ LastCall.op \in { "from_device_code", "from_pat" } =>
              (LastCall.req = "from_pat" /\ LastCall.sent /\ is_success(LastCall.status))
        /\ githubUser.org # ""
        /\ githubUser.pat # ""
        /\ githubUser.username # NoName

(***************************************************************************)
(* ensure_user_exists called again and again for one username on one       *)
(* system (user.rs is a public module).  `trace` and `log` hold the events *)
(* of the call in progress, `result` what the previous call returned.      *)
(***************************************************************************)
\* argument vectors that ask for provisioning, with each value of the flag
UserArgs ==
    { parse_args(<< [key |-> "org", eq |-> TRUE, val |-> "acme"],
                    [key |-> "client_id", eq |-> TRUE, val |-> "Iv1"], t >>) :
        t \in { u \in Tokens : u.key = "auto_create_user" } }

InitUser ==
    /\ pc = "idle"
    /\ args \in UserArgs
    /\ pamUser = <<"b">>
    /\ username = <<"b">>
    /\ result = "none"
    /\ trace = <<>>
    /\ log = <<>>
    /\ fs \in InitialFs
    /\ githubUser = NoUser
    /\ login = NoName
    /\ ans = <<>>
    /\ keys = ""

\* ensure_user_exists(username, add_sudo) is entered
UserCall ==
    /\ pc = "idle"
    /\ pc' = "eu_id"
    /\ args' \in UserArgs
    /\ trace' = <<>>
    /\ log' = <<>>
    /\ UNCHANGED <<pamUser, username, result, fs, githubUser, login, ans, keys>>

\* ensure_user_exists returns to its caller
UserReturn ==
    /\ pc = "eu_ret"
    /\ pc' = "idle"
    /\ result' = Last(trace).res
    /\ UNCHANGED <<args, pamUser, username, trace, log, fs, githubUser, login, ans, keys>>

NextUser ==
    \/ UserCall
    \/ EuId
    \/ EuUseradd
    \/ EuMkdir
    \/ EuTouch
    \/ EuChmodSsh
    \/ EuChmodKeys
    \/ EuChown
    \/ EuSudoers
    \/ EuVisudo
    \/ UserReturn

SpecUser == InitUser /\ [][NextUser]_vars

\* a call of ensure_user_exists is in progress or has just returned
InCall == pc \notin { "idle" }

\* the commands of ensure_user_exists that modify the system
ModifyingCommands ==
    { "useradd", "mkdir", "touch", "chmod 700", "chmod 600", "chown",
      "write sudoers", "visudo" }

(***************************************************************************)
(* C13: ensure_user_exists is idempotent.  When the previous call for the  *)
(* username returned Ok, the next call runs none of the commands that      *)
(* modify the system and returns Ok(true).                                 *)
(***************************************************************************)
C13_Idempotent ==
    (InCall /\ result \in { "Ok(true)", "Ok(false)" }) =>
        /\ \A i \in 1..Len(trace) :
              trace[i].op = "cmd" => trace[i].arg \notin ModifyingCommands
        /\ pc = "eu_ret" => Last(trace).res = "Ok(true)"

(***************************************************************************)
(* logging::log_to_file step by step (logging.rs:5-19), called again and   *)
(* again by a caller that continues after each return.  `log` holds the    *)
(* message of the call in progress, `trace` what was attempted on the two  *)
(* sinks, `result` the value handed back to the caller.                    *)
(***************************************************************************)
LogMessages ==
    { "Missing organization name", "Missing client ID", "Failed to get username",
      "Authentication request for username", "Failed to get device code",
      "Failed to prompt user", "Unauthorized access", "Creating user",
      "Authentication successful for user", "Imported keys for user" }

LogFile == "/tmp/github_ssh.log"

InitLog ==
    /\ pc = "log_idle"
    /\ args = EmptyMap
    /\ pamUser = NoName
    /\ username = NoName
    /\ result = "none"
    /\ trace = <<>>
    /\ log = <<>>
    /\ fs = [user |-> FALSE, sshDir |-> FALSE, authKeys |-> FALSE,
             sshMode |-> "none", keysMode |-> "none", owner |-> "none",
             sudoers |-> FALSE, keys |-> <<>>]
    /\ githubUser = NoUser
    /\ login = NoName
    /\ ans = <<>>
    /\ keys = ""

\* logging::log_to_file(message) is entered
LogCall ==
    /\ pc = "log_idle"
    /\ \E m \in LogMessages : log' = << m >>
    /\ trace' = <<>>
    /\ result' = "none"
    /\ pc' = "log_open"
    /\ UNCHANGED <<args, pamUser, username, fs, githubUser, login, ans, keys>>

\* mutant: the file is opened with unwrap()
OnOpenUnwrap(r) == IF r = "ok" THEN "log_write" ELSE "panic"

\* logging.rs:6-10: `if let Ok(mut file) = ...open(..)`
OnOpen(r) == IF r = "ok" THEN "log_write" ELSE "log_logger"

LogOpen ==
    /\ pc = "log_open"
    /\ \E r \in { "ok", "fail" } :
        /\ trace' = Append(trace, Ev("open", LogFile, r))
        /\ pc' = OnOpen(r)
    /\ UNCHANGED <<args, pamUser, username, result, log, fs, githubUser, login, ans, keys>>

\* logging.rs:11-12: `let _ = writeln!(..)`
LogWrite ==
    /\ pc = "log_write"
    /\ \E r \in { "ok", "fail" } :
        trace' = Append(trace, Ev("writeln", Last(log), r))
    /\ pc' = "log_logger"
    /\ UNCHANGED <<args, pamUser, username, result, log, fs, githubUser, login, ans, keys>>

\* logging.rs:16-18: `let _ = Command::new("logger")...status()`
LogLogger ==
    /\ pc = "log_logger"
    /\ \E r \in CmdResults :
        trace' = Append(trace, Ev("logger", Last(log), r))
    /\ result' = "()"
    /\ pc' = "log_ret"
    /\ UNCHANGED <<args, pamUser, username, log, fs, githubUser, login, ans, keys>>

\* the caller goes on with its next statement
LogReturn ==
    /\ pc = "log_ret"
    /\ pc' = "log_idle"
    /\ UNCHANGED <<args, pamUser, username, result, trace, log, fs, githubUser, login, ans, keys>>

NextLog ==
    \/ LogCall
    \/ LogOpen
    \/ LogWrite
    \/ LogLogger
    \/ LogReturn

SpecLog == InitLog /\ [][NextLog]_vars

(***************************************************************************)
(* C14: failures of the diagnostic sink never alter control flow.  However *)
(* the file open, the write and the logger command turn out, log_to_file   *)
(* never leaves by a panic, and it hands the same unit value back to its   *)
(* caller, so the caller's next step cannot depend on them.                *)
(***************************************************************************)
C14_SinkFailuresSwallowed ==
    /\ pc # "panic"
    /\ pc = "log_ret" => (result = "()" /\ Called("logger"))

C14_Witness ==
    /\ pc = "log_ret"
    /\ Did("open", LogFile, "fail")
    /\ \E m \in LogMessages : Did("logger", m, "nospawn")
    /\ result = "()"

(***************************************************************************)
(* C15: every failure of the device-code request is an error value         *)
(* (Unauthorized, Forbidden or the transport/protocol kind) and ends the   *)
(* attempt with SERVICE_ERR; no prompt is shown and no redemption request  *)
(* is made.                                                                *)
(***************************************************************************)
C15_DeviceCodeFailureIsServiceError ==
    \A i \in 1..Len(trace) :
        (trace[i].op = "get_auth_code" /\ trace[i].res # "Ok") =>
            /\ trace[i].res \in { "Unauthorized", "Forbidden", "Other" }
            /\ result = "SERVICE_ERR"
            /\ ~Called("prompt")
            /\ ~Called("token")

\* the error kind the 401/403/404/else rule gives for a non-success status
StatusRule(status) ==
    CASE status = 401 -> "Unauthorized"
      [] status = 403 -> "Forbidden"
      [] status = 404 -> "NotFound"
      [] OTHER -> "Other"

\* the most recent client call was decided by a completed request that got a
\* non-success status
RefusedByStatus ==
    /\ trace # <<>>
    /\ LastCall.sent
    /\ ~is_success(LastCall.status)

(***************************************************************************)
(* C16: one status-to-error rule.  Whichever request of redemption (token  *)
(* exchange, identity lookup, membership lookup) or the key fetch gets a   *)
(* non-success status, the error is Unauthorized for 401, Forbidden for    *)
(* 403, NotFound for 404 and the generic kind for any other status.        *)
(***************************************************************************)
C16_OneStatusRule ==
    (RefusedByStatus /\ LastCall.op \in { "from_device_code", "get_keys" }) =>
        LastCall.res = StatusRule(LastCall.status)

(***************************************************************************)
(* C17: the identity check of from_device_code is case-insensitive in both *)
(* directions.  Once the identity lookup has reported a login, the call    *)
(* fails with InvalidUser exactly when that login and the claimed username *)
(* differ ignoring case.                                                   *)
(***************************************************************************)
C17_IdentityCheckIgnoresCase ==
    (trace # <<>> /\ LastCall.op = "from_device_code" /\ LastCall.login # NoName) =>
        (LastCall.res = "InvalidUser" <=> ~SameIgnoringCase(LastCall.name, LastCall.login))

(***************************************************************************)
(* C18: is_in_team returns Ok(true) exactly when the team request got a    *)
(* 2xx status, Ok(false) for every other status of a completed request,    *)
(* and Err only when the request could not be completed.                   *)
(***************************************************************************)
C18_TeamLookupResult ==
    (trace # <<>> /\ LastCall.op = "is_in_team") =>
        /\ LastCall.res = "true" <=> (LastCall.sent /\ LastCall.status \in 200..299)
        /\ LastCall.res = "false" <=> (LastCall.sent /\ LastCall.status \notin 200..299)
        /\ LastCall.res = "Err" <=> ~LastCall.sent

C18_Witness ==
    /\ trace # <<>>
    /\ LastCall.op = "is_in_team"
    /\ LastCall.sent
    /\ LastCall.status = 204
    /\ LastCall.res = "true"

\* the sudoers grant was attempted
SudoersTouched ==
    \/ Called("add_user_to_sudoers")
    \/ \E i \in 1..Len(trace) :
          trace[i].op = "cmd" /\ trace[i].arg \in { "write sudoers", "visudo" }

(***************************************************************************)
(* C19: administrative privilege is requested only by the exact value      *)
(* "sudoer".  The sudoers grant is attempted only if auto_create_user has  *)
(* the value "sudoer"; given as a flag or with any other value the account *)
(* is provisioned and the sudoers file stays as it was; and without        *)
(* auto_create_user nothing is provisioned at all.                         *)
(***************************************************************************)
C19_SudoerExactValue ==
    /\ SudoersTouched =>
          (contains_key(args, "auto_create_user") /\ args["auto_create_user"] = "sudoer")
    /\ (pc # "start" /\ ~contains_key(args, "auto_create_user")) => ~Provisioned
    /\ (Did("ensure_user_exists", "", "Ok(false)")
          /\ args["auto_create_user"] # "sudoer") => ~SudoersTouched

C19_Witness ==
    /\ Did("ensure_user_exists", "", "Ok(false)")
    /\ args["auto_create_user"] = "Sudoer"
    /\ Did("cmd", "useradd", "ok")
    /\ ~SudoersTouched
    /\ Done

\* the step of the attempt an event belongs to, in the order of lib.rs:177-308;
\* an error message belongs to termination
StepOf(e) ==
    CASE e.op = "get_user" -> 0
      [] e.op = "get_auth_code" -> 1
      [] e.op = "prompt" /\ e.style = "PROMPT_ECHO_OFF" -> 2
      [] e.op \in { "token", "check_username", "from_pat", "from_device_code" } -> 3
      [] e.op = "is_in_team" -> 4
      [] e.op = "prompt" /\ e.style = "TEXT_INFO" -> 5
      [] e.op \in { "cmd", "add_user_to_sudoers", "ensure_user_exists" } -> 6
      [] e.op = "prompt" /\ e.style = "PROMPT_ECHO_ON" -> 7
      [] e.op = "get_keys" -> 8
      [] e.op = "add_authorized_key" -> 9
      [] OTHER -> 10

\* steps that consist of a single call
SingleCallSteps == { 0, 1, 2, 4, 5, 7, 9 }

\* the event (op, arg, res) occurs before position i of the trace
DidBefore(i, op, arg, res) ==
    \E j \in 1..(i - 1) :
        trace[j].op = op /\ trace[j].arg = arg /\ trace[j].res = res

\* step k, where it applies, completed successfully before position i
CompletedBefore(k, i) ==
    CASE k = 1 -> DidBefore(i, "get_auth_code", "", "Ok")
      [] k = 2 -> DidBefore(i, "prompt", "code", "Ok")
      [] k = 3 -> DidBefore(i, "from_device_code", "", "Ok")
      [] k = 4 -> contains_key(args, "team") => DidBefore(i, "is_in_team", "", "true")
      [] k = 5 -> DidBefore(i, "prompt", "Authentication successful", "Ok")
      [] k = 6 -> auto_create_user(args) =>
                     \/ DidBefore(i, "ensure_user_exists", "", "Ok(true)")
                     \/ DidBefore(i, "ensure_user_exists", "", "Ok(false)")
      [] k = 7 -> DidBefore(i, "prompt", "import keys?", "Ok") /\ IsAffirmative(ans)
      [] k = 8 -> DidBefore(i, "get_keys", "", "Ok")
      [] OTHER -> DidBefore(i, "get_user", "", "SUCCESS")

(***************************************************************************)
(* C20: the attempt is linear.  Along every execution the steps occur in   *)
(* the order device-code request, code prompt, redemption, team lookup,    *)
(* success message, provisioning, key-import question, key fetch, key      *)
(* append, termination: no event of an earlier step follows an event of a  *)
(* later one, a single-call step is not called twice, and an event of a    *)
(* step occurs only after every earlier applicable step has completed      *)
(* successfully.                                                           *)
(***************************************************************************)
C20_LinearOrder ==
    LET step == [i \in 1..Len(trace) |-> StepOf(trace[i])] IN
    /\ \A i \in 1..(Len(trace) - 1) :
          /\ step[i] <= step[i + 1]
          /\ step[i] \in SingleCallSteps => step[i] < step[i + 1]
    /\ \A i \in 1..Len(trace) :
          step[i] <= 9 => \A k \in 0..(step[i] - 1) : CompletedBefore(k, i)

C20_Witness ==
    /\ Done
    /\ result = "SUCCESS"
    /\ \A k \in 1..9 : \E i \in 1..Len(trace) : StepOf(trace[i]) = k

\* host conversations that report success and hand back a response
Answered == { h \in HostConvs : h.kind \in { "ok", "null_text" } }

\* a prompt_user call that returned Err
PromptFailed(e) == e.op = "prompt" /\ e.res \in PamCodes \ { "SUCCESS" }

\* where the code prompt can lead when the host answers as `h`
CodePromptLeadsTo(h) ==
    { o \in { "none", "SUCCESS", "USER_UNKNOWN", "SERVICE_ERR", "ABORT" } :
        ENABLED (PromptCodeWith(h) /\ result' = o) }

(***************************************************************************)
(* C21: one failure of the host prompt ends the attempt.  A prompt_user    *)
(* call that failed is the last thing the attempt did (no retry, no        *)
(* provider call, provisioning or key import after it), and when it was    *)
(* the code prompt, the success message or the key-import question the     *)
(* outcome is SERVICE_ERR.  What the host hands back as the text of the    *)
(* code prompt has no influence on the outcome.                            *)
(***************************************************************************)
C21_PromptFailureEndsAttempt ==
    /\ \A i \in 1..Len(trace) :
          PromptFailed(trace[i]) =>
              /\ i = Len(trace)
              /\ Done
              /\ trace[i].style # "ERROR_MSG" => result = "SERVICE_ERR"
    /\ pc = "prompt_code" =>
          \A h1, h2 \in Answered : CodePromptLeadsTo(h1) = CodePromptLeadsTo(h2)

\* a 200 membership response with a well-formed body
MembershipFound ==
    { r \in HttpResponses : r.sent /\ r.status = 200 /\ r.body = "ok" }

\* where the attempt stands once the membership lookup has answered `resp`
\* with state `st` and role `ro`
MembershipLeadsTo(resp, st, ro, h) ==
    { o \in { "team", "success_msg", "done" }
            \X { "none", "SUCCESS", "USER_UNKNOWN", "SERVICE_ERR", "ABORT" } :
        ENABLED (/\ FromPatWith(resp, st, ro, h)
                 /\ pc' = o[1]
                 /\ result' = o[2]
                 /\ trace' = trace \o << Ev("from_pat", "", "Ok"),
                                         Ev("from_device_code", "", "Ok") >>
                 /\ log' = log) }

(***************************************************************************)
(* C22: only the HTTP success of the membership lookup gates access.  For  *)
(* a 200 membership response, whichever state (pending, active) and role   *)
(* (member, admin, billing_manager) it carries, redemption succeeds and    *)
(* the attempt goes on to the same next step with the same events, log     *)
(* and result.                                                             *)
(***************************************************************************)
C22_MembershipFieldsIgnored ==
    pc = "from_pat" =>
        \A resp \in MembershipFound, h \in HostConvs :
            LET active == MembershipLeadsTo(resp, "active", "member", h) IN
            /\ active # {}
            /\ \A st \in States, ro \in Roles :
                  MembershipLeadsTo(resp, st, ro, h) = active

C22_Witness ==
    /\ githubUser.exists
    /\ githubUser.state = "pending"
    /\ githubUser.role = "billing_manager"
    /\ Done
    /\ result = "SUCCESS"

\* the requests the attempt sends to the provider
ProviderOps ==
    { "get_auth_code", "token", "check_username", "from_pat", "is_in_team", "get_keys" }

(***************************************************************************)
(* C23: each provider operation is issued at most once per attempt: the    *)
(* device-code request, the token exchange, the identity lookup, the       *)
(* organization membership lookup, the team lookup and the key fetch.      *)
(***************************************************************************)
C23_EachProviderCallOnce ==
    \A op \in ProviderOps : Count(op, "") <= 1

(***************************************************************************)
(* ensure_user_exists called again and again on a system where the account *)
(* does not exist beforehand, so that only ensure_user_exists creates it.  *)
(***************************************************************************)
InitCreate == InitUser /\ ~fs.user

SpecCreate == InitCreate /\ [][NextUser]_vars

\* the account exists with ~/.ssh (mode 700) and authorized_keys (mode 600),
\* owned by the account
StoreReady ==
    /\ fs.user
    /\ fs.sshDir
    /\ fs.sshMode = "700"
    /\ fs.authKeys
    /\ fs.keysMode = "600"
    /\ fs.owner = "user"

(***************************************************************************)
(* C24: credential-store invariant across calls.  Whenever the most recent *)
(* call of ensure_user_exists returned Ok(true) or Ok(false), the account  *)
(* exists together with its ~/.ssh directory (mode 700) and its            *)
(* authorized_keys file (mode 600), owned by the account.                  *)
(***************************************************************************)
C24_StoreReadyAfterOk ==
    (pc = "idle" /\ result \in { "Ok(true)", "Ok(false)" }) => StoreReady

====
